---- MODULE Spec2Model ----
(***************************************************************************)
(* Dynamic rendering pipelines (luminance/src/pipeline.rs).                *)
(*                                                                         *)
(* A Pipeline borrows a framebuffer, holds a clear color and an ordered    *)
(* sequence of borrowed, type-erased shading commands.  Pipeline::run      *)
(* delegates to the backend's run_pipeline; each entry's type-erased       *)
(* run_shading_command delegates to the backend's run_shading_command.     *)
(* The two backend entry points are only declared in pipeline.rs (trait    *)
(* HasPipeline); their bodies are modelled from section 4.1 of the         *)
(* specification.  Every backend call is appended to `trace`.              *)
(***************************************************************************)
EXTENDS Integers, Sequences, FiniteSets, TLC

\* ---------------------------------------------------------------- bounds
MaxShadingCommands == 2
MaxRenderCommands == 2
MaxRuns == 2

\* ------------------------------------------------------------ value sets
\* Option<T>: None is the empty tuple, Some(x) the one-element tuple.
None == <<>>
Some(x) == <<x>>

\* Shading-command handles (&'a SomeShadingCommand): references into `heap`.
Handles == {1, 2}

\* Program<C, T>: the program referenced by the shading command behind each
\* handle; the two differ in their uniform payload type T.
ProgramOf(h) == IF h = 1 THEN [name |-> "P", payload |-> "T1"]
                         ELSE [name |-> "Q", payload |-> "T2"]

\* The update closure handed to ShadingCommand::new for each handle.
UpdateOf(h) == IF h = 1 THEN "f" ELSE "g"

\* Argument tuples for RenderCommand::new, per payload type.
RenderArgs(h) ==
  IF h = 1
  THEN { [blending |-> None, depth_test |-> TRUE, update |-> "u1",
          tessellation |-> "tess1", instances |-> 1, rasterization_size |-> None],
         [blending |-> Some(<<"Additive", "One", "Zero">>), depth_test |-> FALSE,
          update |-> "u2", tessellation |-> "tess2", instances |-> 4,
          rasterization_size |-> None],
         [blending |-> Some(<<"Subtract", "SrcAlpha", "DstAlpha">>), depth_test |-> TRUE,
          update |-> "u3", tessellation |-> "tess3", instances |-> 0,
          rasterization_size |-> Some(2)] }
  ELSE { [blending |-> Some(<<"Additive", "SrcAlpha", "One">>), depth_test |-> FALSE,
          update |-> "v1", tessellation |-> "tess1", instances |-> 0,
          rasterization_size |-> None] }

ClearColors == { <<0, 0, 0, 1>>, <<1, 1, 1, 1>> }

SeqsUpTo(S, n) == UNION { [1..k -> S] : k \in 0..n }

\* ---------------------------------------------------------- constructors
\* Mutants of RenderCommand::new: the rasterization size is dropped; the
\* source and destination factors are stored swapped; a zero instance count
\* is raised to one.
RenderCommandNewNoRasterizationSize(blending, depth_test, update, tessellation, instances, rasterization_size) ==
  [blending |-> blending, depth_test |-> depth_test, update |-> update,
   tessellation |-> tessellation, instances |-> instances,
   rasterization_size |-> None]

RenderCommandNewSwappedFactors(blending, depth_test, update, tessellation, instances, rasterization_size) ==
  [blending |-> IF blending = None THEN None
                ELSE Some(<<blending[1][1], blending[1][3], blending[1][2]>>),
   depth_test |-> depth_test, update |-> update,
   tessellation |-> tessellation, instances |-> instances,
   rasterization_size |-> rasterization_size]

RenderCommandNewAtLeastOneInstance(blending, depth_test, update, tessellation, instances, rasterization_size) ==
  [blending |-> blending, depth_test |-> depth_test, update |-> update,
   tessellation |-> tessellation,
   instances |-> IF instances = 0 THEN 1 ELSE instances,
   rasterization_size |-> rasterization_size]

\* RenderCommand::new
RenderCommandNew(blending, depth_test, update, tessellation, instances, rasterization_size) ==
  [blending |-> blending, depth_test |-> depth_test, update |-> update,
   tessellation |-> tessellation, instances |-> instances,
   rasterization_size |-> rasterization_size]

\* Mutant of ShadingCommand::new: the last render command is lost.
ShadingCommandNewDropsLast(program, update, render_commands) ==
  [program |-> program, update |-> update,
   render_commands |-> SubSeq(render_commands, 1, Len(render_commands) - 1)]

\* ShadingCommand::new
ShadingCommandNew(program, update, render_commands) ==
  [program |-> program, update |-> update, render_commands |-> render_commands]

\* Mutants of Pipeline::new: the shading commands are stored in reverse
\* order; the clear color is not stored (all channels zero).
PipelineNewReversed(framebuffer, clear_color, shading_commands) ==
  [framebuffer |-> framebuffer, clear_color |-> clear_color,
   shading_commands |->
     [k \in 1..Len(shading_commands) |-> shading_commands[Len(shading_commands) + 1 - k]]]

PipelineNewZeroClearColor(framebuffer, clear_color, shading_commands) ==
  [framebuffer |-> framebuffer, clear_color |-> <<0, 0, 0, 0>>,
   shading_commands |-> shading_commands]

\* Pipeline::new
PipelineNew(framebuffer, clear_color, shading_commands) ==
  [framebuffer |-> framebuffer, clear_color |-> clear_color,
   shading_commands |-> shading_commands]

\* ------------------------------------------------------------------ state
VARIABLES
  given,     \* the arguments the caller handed to the constructors
  heap,      \* handle -> ShadingCommand (the objects the pipeline borrows)
  pipeline,  \* the Pipeline
  pc,        \* position of the (single) thread of control
  i,         \* run_pipeline: index into pipeline.shading_commands
  cur,       \* handle of the shading command being executed (0: none)
  j,         \* run_shading_command: index into render_commands
  target,    \* backend: the framebuffer currently bound ("none" at start)
  trace,     \* calls recorded during the current / last run
  prev,      \* trace of the run before that
  runs       \* number of completed run() calls

vars == <<given, heap, pipeline, pc, i, cur, j, target, trace, prev, runs>>

\* The render commands built from the argument records of handle h.
BuildRenderCommands(args) ==
  [k \in 1..Len(args) |->
     RenderCommandNew(args[k].blending, args[k].depth_test, args[k].update,
                      args[k].tessellation, args[k].instances,
                      args[k].rasterization_size)]

Init ==
  /\ \E c \in ClearColors, scs \in SeqsUpTo(Handles, MaxShadingCommands),
        r1 \in SeqsUpTo(RenderArgs(1), MaxRenderCommands),
        r2 \in SeqsUpTo(RenderArgs(2), MaxRenderCommands) :
       /\ given = [clear_color |-> c, shading_commands |-> scs,
                   render |-> <<r1, r2>>]
       /\ heap = [h \in Handles |->
                    ShadingCommandNew(ProgramOf(h), UpdateOf(h),
                                      BuildRenderCommands(given.render[h]))]
       /\ pipeline = PipelineNew("fb", c, scs)
  /\ pc = "idle"
  /\ i = 0
  /\ cur = 0
  /\ j = 0
  /\ target = "none"
  /\ trace = <<>>
  /\ prev = <<>>
  /\ runs = 0

\* ------------------------------------------------------------ operations
Running == pc # "idle"

\* Mutants of Pipeline::run: a second run skips the clear and resumes the
\* command loop (incremental execution); run takes the shading commands out
\* of the pipeline it runs.
RunIncremental ==
  /\ pc = "idle"
  /\ runs < MaxRuns
  /\ pc' = IF runs > 0 THEN "shading_commands" ELSE "run_pipeline"
  /\ prev' = trace
  /\ trace' = <<>>
  /\ i' = IF runs > 0 THEN 1 ELSE 0
  /\ UNCHANGED <<given, heap, pipeline, cur, j, target, runs>>

RunTakesCommands ==
  /\ pc = "idle"
  /\ runs < MaxRuns
  /\ pc' = "run_pipeline"
  /\ prev' = trace
  /\ trace' = <<>>
  /\ i' = 0
  /\ pipeline' = [pipeline EXCEPT !.shading_commands = <<>>]
  /\ UNCHANGED <<given, heap, cur, j, target, runs>>

\* Pipeline::run: `C::run_pipeline(self)`.  The caller may run the same
\* pipeline again once the previous call has returned.
Run ==
  /\ pc = "idle"
  /\ runs < MaxRuns
  /\ pc' = "run_pipeline"
  /\ prev' = trace
  /\ trace' = <<>>
  /\ i' = 0
  /\ UNCHANGED <<given, heap, pipeline, cur, j, target, runs>>

\* Backend run_pipeline, steps (1) and (2): bind the pipeline's render
\* target and clear it with clear_color.
ClearTarget ==
  /\ pc = "run_pipeline"
  /\ target' = pipeline.framebuffer
  /\ trace' = Append(trace, <<"clear", pipeline.clear_color>>)
  /\ i' = 1
  /\ pc' = "shading_commands"
  /\ UNCHANGED <<given, heap, pipeline, cur, j, prev, runs>>

\* Backend run_pipeline, step (3): invoke the next entry's type-erased run
\* operation, in sequence order.
NextShadingCommand ==
  /\ pc = "shading_commands"
  /\ i <= Len(pipeline.shading_commands)
  /\ cur' = pipeline.shading_commands[i]
  /\ trace' = Append(trace, <<"run", pipeline.shading_commands[i]>>)
  /\ pc' = "some_run"
  /\ UNCHANGED <<given, heap, pipeline, i, j, target, prev, runs>>

\* Mutants of the type-erased run: a command already executed in this run
\* is not handed to the backend again; the method calls itself instead of
\* the backend (`self.run_shading_command()`), and never returns.
SomeRunShadingCommandOnce ==
  /\ pc = "some_run"
  /\ IF \E k \in DOMAIN trace : trace[k][1] = "run_shading_command" /\ trace[k][2] = cur
     THEN /\ pc' = "shading_commands"
          /\ i' = i + 1
          /\ cur' = 0
          /\ UNCHANGED <<given, heap, pipeline, j, target, trace, prev, runs>>
     ELSE /\ trace' = Append(trace, <<"run_shading_command", cur, heap[cur].program.payload>>)
          /\ pc' = "bind_program"
          /\ UNCHANGED <<given, heap, pipeline, i, cur, j, target, prev, runs>>

SomeRunShadingCommandCallsItself ==
  /\ pc = "some_run"
  /\ pc' = "some_run"
  /\ UNCHANGED <<given, heap, pipeline, i, cur, j, target, trace, prev, runs>>

\* impl SomeShadingCommand for ShadingCommand<C, T>:
\* `fn run_shading_command(&self) { C::run_shading_command(self); }`
SomeRunShadingCommand ==
  /\ pc = "some_run"
  /\ trace' = Append(trace, <<"run_shading_command", cur, heap[cur].program.payload>>)
  /\ pc' = "bind_program"
  /\ UNCHANGED <<given, heap, pipeline, i, cur, j, target, prev, runs>>

\* Backend run_shading_command, step (1): bind the referenced program.
BindProgram ==
  /\ pc = "bind_program"
  /\ trace' = Append(trace, <<"bind", heap[cur].program.name>>)
  /\ pc' = "call_update"
  /\ UNCHANGED <<given, heap, pipeline, i, cur, j, target, prev, runs>>

\* Backend run_shading_command, step (2): invoke the command's update
\* callback once.
CallUpdate ==
  /\ pc = "call_update"
  /\ trace' = Append(trace, <<"call", heap[cur].update>>)
  /\ j' = 1
  /\ pc' = "render_commands"
  /\ UNCHANGED <<given, heap, pipeline, i, cur, target, prev, runs>>

\* What the backend sets for a `blending` field: disabled for None, else
\* the equation and the source and destination factors.
BlendState(blending) ==
  IF blending = None THEN <<"off">>
  ELSE <<"on", blending[1][1], blending[1][2], blending[1][3]>>

\* Backend run_shading_command, step (3), per render command: configure the
\* blend state and the depth-test flag.
Configure ==
  /\ pc = "render_commands"
  /\ j <= Len(heap[cur].render_commands)
  /\ LET rc == heap[cur].render_commands[j]
     IN trace' = Append(trace, <<"configure", rc.depth_test, BlendState(rc.blending)>>)
  /\ pc' = "update"
  /\ UNCHANGED <<given, heap, pipeline, i, cur, j, target, prev, runs>>

\* ... invoke the render command's update callback once.
Update ==
  /\ pc = "update"
  /\ LET rc == heap[cur].render_commands[j]
     IN /\ trace' = Append(trace, <<"update", rc.update>>)
        /\ pc' = IF rc.rasterization_size = None THEN "draw" ELSE "rasterization"
  /\ UNCHANGED <<given, heap, pipeline, i, cur, j, target, prev, runs>>

\* ... apply the rasterization-size override, if present.
ApplyRasterizationSize ==
  /\ pc = "rasterization"
  /\ LET rc == heap[cur].render_commands[j]
     IN trace' = Append(trace, <<"rasterization_size", rc.rasterization_size[1]>>)
  /\ pc' = "draw"
  /\ UNCHANGED <<given, heap, pipeline, i, cur, j, target, prev, runs>>

\* ... issue the draw of the tessellation with the instance count.
Draw ==
  /\ pc = "draw"
  /\ LET rc == heap[cur].render_commands[j]
     IN trace' = Append(trace, <<"draw", rc.tessellation, rc.instances>>)
  /\ j' = j + 1
  /\ pc' = "render_commands"
  /\ UNCHANGED <<given, heap, pipeline, i, cur, target, prev, runs>>

\* run_shading_command returns to run_pipeline's loop.
EndShadingCommand ==
  /\ pc = "render_commands"
  /\ j > Len(heap[cur].render_commands)
  /\ i' = i + 1
  /\ cur' = 0
  /\ j' = 0
  /\ pc' = "shading_commands"
  /\ UNCHANGED <<given, heap, pipeline, target, trace, prev, runs>>

\* run_pipeline returns, and with it Pipeline::run.
EndPipeline ==
  /\ pc = "shading_commands"
  /\ i > Len(pipeline.shading_commands)
  /\ i' = 0
  /\ runs' = runs + 1
  /\ pc' = "idle"
  /\ UNCHANGED <<given, heap, pipeline, cur, j, target, trace, prev>>

\* The steps of one run() call, once it has been made.
Step ==
  \/ ClearTarget
  \/ NextShadingCommand
  \/ SomeRunShadingCommand
  \/ BindProgram
  \/ CallUpdate
  \/ Configure
  \/ Update
  \/ ApplyRasterizationSize
  \/ Draw
  \/ EndShadingCommand
  \/ EndPipeline

Next == Run \/ Step

Spec == Init /\ [][Next]_vars

\* run() is a plain blocking call on one thread: a step that can be taken
\* is taken.
FairSpec == Spec /\ WF_vars(Step)

\* ------------------------------------------------------ reading the trace
\* The events of t whose operation is one of ops, in order.
Proj(t, ops) == LET keep(e) == e[1] \in ops IN SelectSeq(t, keep)

\* What a recording backend sees: everything but the two dispatch markers.
Observed(t) ==
  Proj(t, {"clear", "bind", "call", "configure", "update", "rasterization_size", "draw"})

\* A run() call has been made and has returned; trace is its whole trace.
Done == pc = "idle" /\ runs > 0

\* The RenderCommand::new argument records of the render commands a run
\* goes through, in order: those of each shading command of the sequence.
RECURSIVE Flatten(_)
Flatten(scs) ==
  IF scs = <<>> THEN <<>> ELSE given.render[Head(scs)] \o Flatten(Tail(scs))

Flat == Flatten(given.shading_commands)

\* Positions at which the backend's run_shading_command is entered, and the
\* events of that execution: up to the next type-erased run, or the end.
Starts == { k \in DOMAIN trace : trace[k][1] = "run_shading_command" }

SegEnd(s) ==
  LET later == { k \in DOMAIN trace : k > s /\ trace[k][1] = "run" }
  IN IF later = {} THEN Len(trace)
     ELSE (CHOOSE k \in later : \A m \in later : k <= m) - 1

Segment(s) == SubSeq(trace, s + 1, SegEnd(s))

\* The events one render command built from argument record a must yield.
ExpectedRender(a) ==
  << <<"configure", a.depth_test,
       IF a.blending = None THEN <<"off">> ELSE <<"on">> \o a.blending[1]>>,
     <<"update", a.update>> >>
  \o (IF a.rasterization_size = None THEN <<>>
      ELSE << <<"rasterization_size", a.rasterization_size[1]>> >>)
  \o << <<"draw", a.tessellation, a.instances>> >>

RECURSIVE ExpectedRenders(_)
ExpectedRenders(args) ==
  IF args = <<>> THEN <<>>
  ELSE ExpectedRender(Head(args)) \o ExpectedRenders(Tail(args))

\* ------------------------------------------------------------------ claims

\* C1: one run() clears the target exactly once, the clear precedes every
\* dispatch of a shading command, and S1..Sn are dispatched in sequence
\* order with none reordered or skipped.
C1_ClearOnceThenDispatchInOrder ==
  LET clears == { k \in DOMAIN trace : trace[k][1] = "clear" }
      disp == Proj(trace, {"run"})
  IN /\ Cardinality(clears) <= 1
     /\ \A k \in DOMAIN trace :
          trace[k][1] \in {"run", "run_shading_command"} => \E c \in clears : c < k
     /\ Len(disp) <= Len(given.shading_commands)
     /\ \A k \in DOMAIN disp : disp[k][2] = given.shading_commands[k]
     /\ Done => /\ Cardinality(clears) = 1
                /\ Len(disp) = Len(given.shading_commands)

C1_Witness ==
  /\ Done
  /\ given.shading_commands = <<2, 1>>
  /\ Proj(trace, {"clear", "run"}) = << <<"clear", given.clear_color>>, <<"run", 2>>, <<"run", 1>> >>

\* C2: in every execution of a shading command with k render commands, the
\* shading command's update callback is invoked exactly once and before any
\* render command runs, every render command's update callback is invoked
\* exactly once, and the render commands execute in insertion order.
C2_CallbacksOnceInInsertionOrder ==
  Done =>
    \A s \in Starts :
      LET h == trace[s][2]
          seg == Segment(s)
          args == given.render[h]
          calls == { k \in DOMAIN seg : seg[k][1] = "call" }
      IN /\ Cardinality(calls) = 1
         /\ \A k \in calls : seg[k] = <<"call", UpdateOf(h)>>
         /\ \A k \in DOMAIN seg :
              seg[k][1] \in {"configure", "update", "rasterization_size", "draw"}
                => \E c \in calls : c < k
         /\ Proj(seg, {"update"}) = [k \in 1..Len(args) |-> <<"update", args[k].update>>]
         /\ Proj(seg, {"draw"}) =
              [k \in 1..Len(args) |-> <<"draw", args[k].tessellation, args[k].instances>>]

C2_Witness ==
  /\ Done
  /\ \E s \in Starts :
       /\ Len(given.render[trace[s][2]]) >= 2
       /\ given.render[trace[s][2]][1] # given.render[trace[s][2]][2]
       /\ Len(Proj(Segment(s), {"update"})) >= 2

\* The end-to-end scenario: clear color [0,0,0,1], one shading command over
\* P with update f and render commands R1 (no blending, depth test,
\* 1 instance) and R2 (Additive/One/Zero, no depth test, 4 instances).
ScenarioR1 ==
  [blending |-> None, depth_test |-> TRUE, update |-> "u1",
   tessellation |-> "tess1", instances |-> 1, rasterization_size |-> None]

ScenarioR2 ==
  [blending |-> Some(<<"Additive", "One", "Zero">>), depth_test |-> FALSE,
   update |-> "u2", tessellation |-> "tess2", instances |-> 4,
   rasterization_size |-> None]

InScenario ==
  /\ given.clear_color = <<0, 0, 0, 1>>
  /\ given.shading_commands = <<1>>
  /\ given.render[1] = <<ScenarioR1, ScenarioR2>>

\* C3: within one run_shading_command the backend binds the program, calls
\* the shading command's update callback, then per render command in order
\* configures blend and depth test, calls its update callback and draws;
\* the scenario yields exactly clear(c), bind(P), call(f), configure(R1),
\* update(R1), draw(R1), configure(R2), update(R2), draw(R2).
C3_BackendStepOrder ==
  Done =>
    /\ \A s \in Starts :
         Segment(s) =
           << <<"bind", ProgramOf(trace[s][2]).name>>, <<"call", UpdateOf(trace[s][2])>> >>
           \o ExpectedRenders(given.render[trace[s][2]])
    /\ InScenario =>
         Observed(trace) =
           << <<"clear", <<0, 0, 0, 1>>>>,
              <<"bind", "P">>,
              <<"call", "f">>,
              <<"configure", TRUE, <<"off">>>>,
              <<"update", "u1">>,
              <<"draw", "tess1", 1>>,
              <<"configure", FALSE, <<"on", "Additive", "One", "Zero">>>>,
              <<"update", "u2">>,
              <<"draw", "tess2", 4>> >>

C3_Witness == Done /\ InScenario /\ Len(Observed(trace)) = 9

\* C4: for a render command with a rasterization-size override, the update
\* callback comes first, then the size is applied, then the draw is issued.
C4_UpdateThenRasterizationThenDraw ==
  /\ \A k \in DOMAIN trace :
       trace[k][1] = "rasterization_size" =>
         /\ k > 1
         /\ trace[k - 1][1] = "update"
         /\ k < Len(trace) => trace[k + 1][1] = "draw"
  /\ Done =>
       Proj(trace, {"rasterization_size"}) =
         LET over == LET has(a) == a.rasterization_size # None IN SelectSeq(Flat, has)
         IN [k \in 1..Len(over) |-> <<"rasterization_size", over[k].rasterization_size[1]>>]

C4_Witness ==
  /\ Done
  /\ \E k \in DOMAIN trace :
       /\ 1 < k
       /\ k < Len(trace)
       /\ trace[k] = <<"rasterization_size", 2>>
       /\ trace[k - 1] = <<"update", "u3">>
       /\ trace[k + 1][1] = "draw"

\* C5: each entry of shading_commands resolves, through its type-erased run,
\* to exactly one backend run_shading_command on that same command; nothing
\* is deduplicated, so a command occurring m times is executed m times, at
\* its m positions.
C5_OneBackendCallPerEntry ==
  /\ \A k \in DOMAIN trace :
       /\ (trace[k][1] = "run" /\ k < Len(trace)) =>
            trace[k + 1] = <<"run_shading_command", trace[k][2], ProgramOf(trace[k][2]).payload>>
       /\ trace[k][1] = "run_shading_command" => (k > 1 /\ trace[k - 1][1] = "run")
  /\ pc # "some_run" =>
       Len(Proj(trace, {"run"})) = Len(Proj(trace, {"run_shading_command"}))
  /\ Done =>
       LET executed == Proj(trace, {"run_shading_command"})
       IN [k \in 1..Len(executed) |-> executed[k][2]] = given.shading_commands

C5_Witness ==
  /\ Done
  /\ \E h \in Handles :
       /\ given.shading_commands = <<h, h>>
       /\ Len(Proj(trace, {"run_shading_command"})) = 2

\* C6: two run() calls on the same pipeline produce two traces identical in
\* order and arguments.
C6_RunTwiceSameTrace == (pc = "idle" /\ runs >= 2) => trace = prev

C6_Witness ==
  /\ pc = "idle"
  /\ runs >= 2
  /\ Len(given.shading_commands) >= 2
  /\ Len(Proj(prev, {"draw"})) >= 2

\* C7: for every render command executed, the blend state the backend
\* observes is the command's blending: disabled for None, exactly the
\* triple (equation, source, destination) for Some of it.
C7_BlendStateForwarded ==
  Done =>
    LET cfg == Proj(trace, {"configure"})
    IN /\ Len(cfg) = Len(Flat)
       /\ \A m \in DOMAIN cfg :
            LET b == Flat[m].blending
            IN /\ b = None => cfg[m][3] = <<"off">>
               /\ b # None => cfg[m][3] = <<"on", b[1][1], b[1][2], b[1][3]>>

C7_Witness ==
  /\ Done
  /\ \E m, n \in DOMAIN trace :
       /\ trace[m][1] = "configure" /\ trace[m][3] = <<"off">>
       /\ trace[n][1] = "configure" /\ trace[n][3] = <<"on", "Additive", "One", "Zero">>

\* C8: a render command with instances = 0 is not skipped: blend state and
\* depth test are configured, its update callback is invoked once, and a
\* draw with instance count 0 is recorded, at its position.
C8_ZeroInstancesNotSkipped ==
  Done =>
    LET cfg == Proj(trace, {"configure"})
        upd == Proj(trace, {"update"})
        drw == Proj(trace, {"draw"})
    IN /\ Len(cfg) = Len(Flat)
       /\ Len(upd) = Len(Flat)
       /\ Len(drw) = Len(Flat)
       /\ \A m \in DOMAIN Flat :
            Flat[m].instances = 0 =>
              /\ cfg[m][2] = Flat[m].depth_test
              /\ upd[m] = <<"update", Flat[m].update>>
              /\ drw[m] = <<"draw", Flat[m].tessellation, 0>>

C8_Witness ==
  /\ Done
  /\ \E m \in DOMAIN Flat :
       /\ m < Len(Flat)
       /\ Flat[m].instances = 0
       /\ Flat[m + 1].instances > 0
       /\ Proj(trace, {"draw"})[m][3] = 0

\* Every shading command and every render command of the tree has been
\* dispatched.
Complete ==
  /\ Len(Proj(trace, {"run_shading_command"})) = Len(given.shading_commands)
  /\ Len(Proj(trace, {"draw"})) = Len(Flat)

\* C9: run() terminates, and it returns only after every shading command and
\* every render command has been dispatched (no early exit, no partial
\* execution).
C9_RunTerminatesComplete ==
  /\ Running ~> ~Running
  /\ [](Done => Complete)

C9_Witness ==
  /\ Done
  /\ Complete
  /\ Len(given.shading_commands) >= 2
  /\ Len(Flat) >= 3

\* C10: run() leaves every field of the Pipeline, of its shading commands
\* and of their render commands unchanged.
C10_FieldsUnchanged == [][pipeline' = pipeline /\ heap' = heap]_vars

C10_Witness ==
  /\ Done
  /\ Len(trace) > 3
  /\ pipeline.shading_commands = <<1, 2>>
  /\ heap[1].render_commands # <<>>
  /\ heap[2].render_commands # <<>>

====
